---------------------------- MODULE Spec2Model ----------------------------
(***************************************************************************)
(* Model of the OpenSSL-backed EC public key of libstrongswan               *)
(* (src/libstrongswan/plugins/openssl/openssl_ec_public_key.c): the key     *)
(* object with its reference count and native EC_KEY handle, the signature  *)
(* verifier, the fingerprint cache as the key uses it, and the builder.     *)
(*                                                                         *)
(* Chunks are sequences of small naturals.  The heap is one record: key     *)
(* objects (`this`), native EC_KEY allocations, the process-wide encoding   *)
(* cache, and counters of the frees performed.                              *)
(***************************************************************************)
EXTENDS Integers, Sequences, FiniteSets, TLC

VARIABLES
    heap,      \* objs, natives, cache, and observations of frees and cache inserts
    env,       \* what the library offers: SHA-1 hasher plugin, OpenSSL digests
    bld,       \* the builder: exists, key, cancelled
    result,    \* what build() returned
    hist,      \* the add calls made so far (observation only)
    pc,        \* position of each context
    loc,       \* locals of each context
    held,      \* the key references each context owns
    call       \* one verify call: inputs and outputs

vars == <<heap, env, bld, result, hist, pc, loc, held, call>>

----------------------------------------------------------------------------
(* Bounds *)

MaxObjs == 2
MaxSlots == 2
MaxAdds == 3
MaxRefs == 2
NThreads == 2
MaxSigLen == 4
MaxZeroPrefix == 3

NULL == 0
ObjIds == 1..MaxObjs
Slots == 1..MaxSlots

----------------------------------------------------------------------------
(* Chunks and the codec adapter *)

RECURSIVE SeqsUpTo(_, _)
SeqsUpTo(S, n) ==
    IF n = 0 THEN {<<>>}
    ELSE LET shorter == SeqsUpTo(S, n - 1)
         IN  shorter \cup {Append(q, b) : q \in {x \in shorter : Len(x) = n - 1}, b \in S}

RECURSIVE Zeros(_)
Zeros(n) == IF n = 0 THEN <<>> ELSE <<0>> \o Zeros(n - 1)

RECURSIVE SumSeq(_)
SumSeq(q) == IF q = <<>> THEN 0 ELSE Head(q) + SumSeq(Tail(q))

(* BN_bin2bn: the unsigned big-endian integer of a byte string.  A bignum is
   held as its shortest big-endian byte string, so that values of any size
   compare exactly; BnOfInt is the bignum of a number below 256 *)
RECURSIVE BN_bin2bn(_)
BN_bin2bn(q) == IF q # <<>> /\ Head(q) = 0 THEN BN_bin2bn(Tail(q)) ELSE q
BnOfInt(n) == IF n = 0 THEN <<>> ELSE <<n>>

Curves == {"curveA", "curveB"}
Points == {1, 2}
Materials == [curve : Curves, point : Points]
NoMat == [curve |-> "none", point |-> 0]

(* EC_GROUP_get_degree of the two modelled curves, in bits *)
CurveDegree == [curveA |-> 8, curveB |-> 13]
CurveOid == [curveA |-> 7, curveB |-> 34]

SEQ_TAG == 48
INT_TAG == 2
POINT_UNCOMPRESSED == 4

(* EC_FIELD_ELEMENT_LEN: bytes of one field element *)
EC_FIELD_ELEMENT_LEN(mat) == (CurveDegree[mat.curve] + 7) \div 8

(* i2o_ECPublicKey: the raw encoded point *)
i2o_ECPublicKey(mat) == <<POINT_UNCOMPRESSED, mat.point>>

(* an encoder that names the other curve *)
i2d_EC_PUBKEY_other_curve(mat) ==
    <<SEQ_TAG, CurveOid[CHOOSE c \in Curves : c # mat.curve]>> \o i2o_ECPublicKey(mat)

(* i2d_EC_PUBKEY: DER SubjectPublicKeyInfo *)
i2d_EC_PUBKEY(mat) == <<SEQ_TAG, CurveOid[mat.curve]>> \o i2o_ECPublicKey(mat)

(* d2i_EC_PUBKEY: NoMat (NULL) unless the blob starts with a well-formed
   SubjectPublicKeyInfo of a known curve *)
d2i_EC_PUBKEY(blob) ==
    IF /\ Len(blob) >= 4
       /\ blob[1] = SEQ_TAG
       /\ \E c \in Curves : CurveOid[c] = blob[2]
       /\ blob[3] = POINT_UNCOMPRESSED
       /\ blob[4] \in Points
    THEN [curve |-> CHOOSE c \in Curves : CurveOid[c] = blob[2], point |-> blob[4]]
    ELSE NoMat

MalformedBlobs ==
    { <<>>, <<SEQ_TAG>>, <<SEQ_TAG, 7, POINT_UNCOMPRESSED>>,
      <<49, 7, POINT_UNCOMPRESSED, 1>>, <<SEQ_TAG, 99, POINT_UNCOMPRESSED, 1>> }
Blobs == {i2d_EC_PUBKEY(m) : m \in Materials} \cup MalformedBlobs

(* Hashes: a digest is the algorithm's tag followed by the message *)
HashTag == [NID_sha1 |-> 101, NID_sha256 |-> 102, NID_sha384 |-> 103, NID_sha512 |-> 104]
HashOf(nid, data) == <<HashTag[nid]>> \o data

(* openssl_hash_chunk: fails when OpenSSL offers no such digest *)
openssl_hash_chunk(e, nid, data) ==
    IF e.evp THEN [ok |-> TRUE, hash |-> HashOf(nid, data)]
    ELSE [ok |-> FALSE, hash |-> <<>>]


(* The SHA-1 hasher of the crypto factory, as used for fingerprints *)
allocate_hash(key) == HashOf("NID_sha1", key)

----------------------------------------------------------------------------
(* The encoding cache (lib->encoding), keyed by request type and the
   address of the native key *)

EncTypes == {"KEY_PUB_SPKI_ASN1_DER", "KEY_ID_PUBKEY_SHA1",
             "KEY_ID_PUBKEY_INFO_SHA1", "KEY_ID_PGPV4"}
FingerprintTypes == {"KEY_ID_PUBKEY_SHA1", "KEY_ID_PUBKEY_INFO_SHA1"}

NoChunk == [hit |-> FALSE, chunk |-> <<>>]

(* The key under which openssl_ec_fingerprint looks up and stores *)
CacheKeyAnyType(type, ec) == <<"KEY_ID_PUBKEY_SHA1", ec>>
CacheKey(type, ec) == <<type, ec>>

get_cache(c, type, ec) == c[CacheKey(type, ec)]
cache_put(c, type, ec, fp) == [c EXCEPT ![CacheKey(type, ec)] = [hit |-> TRUE, chunk |-> fp]]
clear_cache(c, ec) == [k \in DOMAIN c |-> IF k[2] = ec THEN NoChunk ELSE c[k]]
HasEntries(c, ec) == \E ty \in EncTypes : c[<<ty, ec>>].hit

----------------------------------------------------------------------------
(* The heap: key objects, native keys, the cache *)

FreeObj == [live |-> FALSE, ec |-> NULL, ref |-> 0]
FreeNative == [live |-> FALSE, mat |-> NoMat]

EmptyHeap ==
    [ objs     |-> [o \in ObjIds |-> FreeObj],
      natives  |-> [s \in Slots |-> FreeNative],
      cache    |-> [k \in EncTypes \X Slots |-> NoChunk],
      ecFrees  |-> [s \in Slots |-> 0],
      objFrees |-> [o \in ObjIds |-> 0],
      uaf      |-> FALSE,
      purged   |-> [s \in Slots |-> NoMat],
      dup      |-> FALSE ]

FreeObjs(h) == {o \in ObjIds : ~h.objs[o].live}
FreeSlots(h) == {s \in Slots : ~h.natives[s].live}

(* Material behind a native handle; reading a released handle is flagged *)
MatOf(h, ec) == h.natives[ec].mat
ReadsFreed(h, o) == ~h.objs[o].live \/ (h.objs[o].ec # NULL /\ ~h.natives[h.objs[o].ec].live)

(* refcount_t helpers: atomic increment, atomic decrement and test for zero *)
ref_get(n) == n + 1
ref_put(n) == [ref |-> n - 1, last |-> n - 1 = 0]

(* create_empty: a fresh object at address o, no native key, ref 1 *)
create_empty(h, o) ==
    [h EXCEPT !.objs[o] = [live |-> TRUE, ec |-> NULL, ref |-> 1],
              !.objFrees[o] = 0]

(* get_ref *)
get_ref(h, o) ==
    [h EXCEPT !.objs[o].ref = ref_get(@), !.uaf = @ \/ ~h.objs[o].live]

(* a ref_put that purges the key's cache entries whatever the count *)
destroy_put_purging(h, o) ==
    [h EXCEPT !.objs[o].ref = ref_put(@).ref, !.uaf = @ \/ ~h.objs[o].live,
              !.cache = clear_cache(@, h.objs[o].ec)]

(* destroy, in the steps another context can interleave with *)
destroy_put(h, o) ==
    [h EXCEPT !.objs[o].ref = ref_put(@).ref, !.uaf = @ \/ ~h.objs[o].live]

(* whether this destroy call goes on to release: the result of ref_put *)
destroy_is_last_always(h, o) == TRUE
destroy_is_last(h, o) == ref_put(h.objs[o].ref).last

(* the cache after destroy's purge of the entries of the native key ec *)
destroy_purge_skip(c, ec) == c
destroy_purge(c, ec) == IF ec # NULL THEN clear_cache(c, ec) ELSE c

destroy_clear(h, o) ==
    LET ec == h.objs[o].ec
    IN  [h EXCEPT !.cache = destroy_purge(@, ec),
                  !.purged = IF ec # NULL /\ HasEntries(h.cache, ec)
                             THEN [@ EXCEPT ![ec] = MatOf(h, ec)] ELSE @,
                  !.uaf = @ \/ ReadsFreed(h, o)]

destroy_free_ec(h, o) ==
    LET ec == h.objs[o].ec
    IN  IF ec = NULL THEN h
        ELSE [h EXCEPT !.natives[ec] = FreeNative,
                       !.ecFrees[ec] = IF @ < 2 THEN @ + 1 ELSE @,
                       !.uaf = @ \/ ReadsFreed(h, o)]

destroy_free_this(h, o) ==
    [h EXCEPT !.objs[o] = FreeObj,
              !.objFrees[o] = IF @ < 2 THEN @ + 1 ELSE @,
              !.uaf = @ \/ ~h.objs[o].live]

(* destroy as one call *)
destroy(h, o) ==
    IF destroy_is_last(h, o)
    THEN destroy_free_this(destroy_free_ec(destroy_clear(destroy_put(h, o), o), o), o)
    ELSE destroy_put(h, o)

(* a load that returns NULL for a blob that does not decode and keeps the
   object it made *)
load_keeps_failed(h, blob, o, s) ==
    LET h1  == create_empty(h, o)
        mat == d2i_EC_PUBKEY(blob)
    IN  IF mat = NoMat
        THEN [heap |-> h1, key |-> NULL]
        ELSE [heap |-> [h1 EXCEPT !.objs[o].ec = s,
                                  !.natives[s] = [live |-> TRUE, mat |-> mat],
                                  !.ecFrees[s] = 0],
              key |-> o]

(* load: create_empty, d2i_EC_PUBKEY into a fresh native key at address s,
   destroy and NULL when the blob does not decode *)
load(h, blob, o, s) ==
    LET h1  == create_empty(h, o)
        mat == d2i_EC_PUBKEY(blob)
    IN  IF mat = NoMat
        THEN [heap |-> destroy(h1, o), key |-> NULL]
        ELSE [heap |-> [h1 EXCEPT !.objs[o].ec = s,
                                  !.natives[s] = [live |-> TRUE, mat |-> mat],
                                  !.ecFrees[s] = 0],
              key |-> o]

get_type(o) == "KEY_ECDSA"

----------------------------------------------------------------------------
(* Values of the variables a specification does not use *)

Contexts == 0..NThreads
IdleEnv == [hasher |-> TRUE, evp |-> TRUE]
NoBuilder == [state |-> "none", key |-> NULL, cancelled |-> FALSE]
NoResult == [done |-> FALSE, key |-> NULL, released |-> FALSE]
NoHist == [nadds |-> 0, first |-> "none", failAt |-> 0, okAt |-> 0]
NoLoc == [key |-> NULL, type |-> "none", chunk |-> <<>>, ret |-> NoChunk, op |-> "none"]
NoCall == [this |-> NULL, scheme |-> "none", data |-> <<>>, sig |-> <<>>,
           done |-> FALSE, ret |-> FALSE, diag |-> FALSE]

----------------------------------------------------------------------------
(* The builder *)

KeyTypes == {"KEY_ECDSA", "KEY_RSA"}
Parts == {"BUILD_BLOB_ASN1_DER", "BUILD_KEY_SIZE", "BUILD_END"}

(* builder_cancel: from here on add does nothing and build returns nothing *)
builder_cancel(b) == [b EXCEPT !.cancelled = TRUE]

AddKind(part, blob) ==
    IF part # "BUILD_BLOB_ASN1_DER" THEN "other"
    ELSE IF d2i_EC_PUBKEY(blob) = NoMat THEN "der_bad" ELSE "der_ok"

(* what add records about itself: loaded is "ok", "failed" or "none" *)
Observe(h, part, blob, loaded) ==
    [ nadds  |-> h.nadds + 1,
      first  |-> IF h.nadds = 0 THEN AddKind(part, blob) ELSE h.first,
      failAt |-> IF loaded = "failed" /\ h.failAt = 0 THEN h.nadds + 1 ELSE h.failAt,
      okAt   |-> IF loaded = "ok" /\ h.okAt = 0 THEN h.nadds + 1 ELSE h.okAt ]

(* whether add takes the loading branch: no key held, and a DER blob part *)
add_loads_any_part(b, h, part) == b.key = NULL
add_loads_always(b, h, part) == part = "BUILD_BLOB_ASN1_DER"
add_loads(b, h, part) == b.key = NULL /\ part = "BUILD_BLOB_ASN1_DER"

(* openssl_ec_public_key_builder *)
CreateBuilder(type) ==
    /\ bld.state = "none"
    /\ bld' = IF type # "KEY_ECDSA" THEN [bld EXCEPT !.state = "refused"]
              ELSE [state |-> "open", key |-> NULL, cancelled |-> FALSE]
    /\ UNCHANGED <<heap, env, result, hist, pc, loc, held, call>>

(* add *)
Add(part, blob) ==
    /\ bld.state = "open"
    /\ hist.nadds < MaxAdds
    /\ IF bld.cancelled
       THEN /\ hist' = Observe(hist, part, blob, "none")
            /\ UNCHANGED <<heap, bld>>
       ELSE IF add_loads(bld, hist, part)
       THEN \E o \in FreeObjs(heap), s \in FreeSlots(heap) :
                LET r == load(heap, blob, o, s)
                IN  /\ heap' = r.heap
                    /\ bld' = [bld EXCEPT !.key = r.key]
                    /\ hist' = Observe(hist, part, blob,
                                       IF r.key = NULL THEN "failed" ELSE "ok")
       ELSE /\ heap' = IF bld.key # NULL THEN destroy(heap, bld.key) ELSE heap
            /\ bld' = builder_cancel(bld)
            /\ hist' = Observe(hist, part, blob, "none")
    /\ UNCHANGED <<env, result, pc, loc, held, call>>

(* build: hands out the key field; a cancelled builder yields nothing *)
build(b) == b.key

Build ==
    /\ bld.state = "open"
    /\ result' = [done |-> TRUE,
                  key |-> IF bld.cancelled THEN NULL ELSE build(bld),
                  released |-> FALSE]
    /\ bld' = [bld EXCEPT !.state = "consumed"]
    /\ UNCHANGED <<heap, env, hist, pc, loc, held, call>>

(* the caller of build() gives up the key it was handed *)
OwnerDestroy ==
    /\ result.done /\ result.key # NULL /\ ~result.released
    /\ heap' = destroy(heap, result.key)
    /\ result' = [result EXCEPT !.released = TRUE]
    /\ UNCHANGED <<env, bld, hist, pc, loc, held, call>>

Init ==
    /\ heap = EmptyHeap
    /\ env = IdleEnv
    /\ bld = NoBuilder
    /\ result = NoResult
    /\ hist = NoHist
    /\ pc = [c \in Contexts |-> "off"]
    /\ loc = [c \in Contexts |-> NoLoc]
    /\ held = [c \in Contexts |-> {}]
    /\ call = NoCall

Next ==
    \/ \E type \in KeyTypes : CreateBuilder(type)
    \/ \E part \in Parts, blob \in Blobs : Add(part, blob)
    \/ Build
    \/ OwnerDestroy

Spec == Init /\ [][Next]_vars

----------------------------------------------------------------------------
(* get_fingerprint as one call *)

(* a switch whose default case hashes the raw point as well *)
fingerprint_input_any(type, mat) ==
    IF type = "KEY_ID_PUBKEY_INFO_SHA1"
    THEN [ok |-> TRUE, key |-> i2d_EC_PUBKEY(mat)]
    ELSE [ok |-> TRUE, key |-> i2o_ECPublicKey(mat)]

(* the switch on the request: the bytes that are hashed *)
fingerprint_input(type, mat) ==
    CASE type = "KEY_ID_PUBKEY_SHA1"      -> [ok |-> TRUE, key |-> i2o_ECPublicKey(mat)]
      [] type = "KEY_ID_PUBKEY_INFO_SHA1" -> [ok |-> TRUE, key |-> i2d_EC_PUBKEY(mat)]
      [] OTHER                            -> [ok |-> FALSE, key |-> <<>>]

(* openssl_ec_fingerprint as one call: the heap after it and what it returns *)
openssl_ec_fingerprint(h, e, ec, type) ==
    LET hit == get_cache(h.cache, type, ec)
        inp == fingerprint_input(type, MatOf(h, ec))
        fp  == allocate_hash(inp.key)
    IN  IF hit.hit THEN [heap |-> h, ret |-> hit]
        ELSE IF ~inp.ok \/ ~e.hasher THEN [heap |-> h, ret |-> NoChunk]
        ELSE [heap |-> [h EXCEPT !.cache = cache_put(@, type, ec, fp),
                                 !.dup = @ \/ get_cache(h.cache, type, ec).hit],
              ret |-> [hit |-> TRUE, chunk |-> fp]]

(* get_fingerprint; what it returns is a function of the heap before it *)
get_fingerprint(h, e, o, type) == openssl_ec_fingerprint(h, e, h.objs[o].ec, type)

----------------------------------------------------------------------------
(* Reference counting under concurrency: one key, its owner (context 0) and
   NThreads contexts that each take a reference, may use the key, and give
   the reference back.  A context takes its reference through one that is
   still held, as the callers of get_ref do.  destroy runs in its steps. *)

TheKey == 1
Holding(c) == pc[c] \in {"holding", "used"}

(* get_keysize *)
get_keysize(h, o) == EC_FIELD_ELEMENT_LEN(MatOf(h, h.objs[o].ec))

RefGet(t) ==
    /\ pc[t] = "idle"
    /\ \E u \in Contexts : Holding(u)
    /\ heap' = get_ref(heap, TheKey)
    /\ pc' = [pc EXCEPT ![t] = "holding"]
    /\ UNCHANGED <<env, bld, result, hist, loc, held, call>>

RefUse(t) ==
    /\ pc[t] = "holding"
    /\ heap' = [heap EXCEPT !.uaf = @ \/ ReadsFreed(heap, TheKey)]
    /\ loc' = [loc EXCEPT ![t].chunk = <<get_keysize(heap, TheKey)>>]
    /\ pc' = [pc EXCEPT ![t] = "used"]
    /\ UNCHANGED <<env, bld, result, hist, held, call>>

(* get_fingerprint by a context that holds a reference *)
RefFingerprint(t, type) ==
    /\ Holding(t)
    /\ heap' = IF ReadsFreed(heap, TheKey) THEN [heap EXCEPT !.uaf = TRUE]
               ELSE get_fingerprint(heap, env, TheKey, type).heap
    /\ UNCHANGED <<env, bld, result, hist, pc, loc, held, call>>

RefPut(t) ==
    /\ Holding(t)
    /\ heap' = destroy_put(heap, TheKey)
    /\ IF destroy_is_last(heap, TheKey)
       THEN /\ pc' = [pc EXCEPT ![t] = "clear"]
            /\ loc' = [loc EXCEPT ![t].op = "last"]
       ELSE /\ pc' = [pc EXCEPT ![t] = "done"]
            /\ loc' = loc
    /\ UNCHANGED <<env, bld, result, hist, held, call>>

RefClear(t) ==
    /\ pc[t] = "clear"
    /\ heap' = destroy_clear(heap, TheKey)
    /\ pc' = [pc EXCEPT ![t] = "free_ec"]
    /\ UNCHANGED <<env, bld, result, hist, loc, held, call>>

RefFreeEc(t) ==
    /\ pc[t] = "free_ec"
    /\ heap' = destroy_free_ec(heap, TheKey)
    /\ pc' = [pc EXCEPT ![t] = "free_this"]
    /\ UNCHANGED <<env, bld, result, hist, loc, held, call>>

RefFreeThis(t) ==
    /\ pc[t] = "free_this"
    /\ heap' = destroy_free_this(heap, TheKey)
    /\ pc' = [pc EXCEPT ![t] = "done"]
    /\ UNCHANGED <<env, bld, result, hist, loc, held, call>>

InitRef ==
    /\ \E m \in Materials, s \in Slots :
           heap = load(EmptyHeap, i2d_EC_PUBKEY(m), TheKey, s).heap
    /\ env = IdleEnv
    /\ bld = NoBuilder
    /\ result = NoResult
    /\ hist = NoHist
    /\ pc = [c \in Contexts |-> IF c = 0 THEN "holding" ELSE "idle"]
    /\ loc = [c \in Contexts |-> [NoLoc EXCEPT !.key = TheKey]]
    /\ held = [c \in Contexts |-> {}]
    /\ call = NoCall

NextRef ==
    \/ \E t \in Contexts : RefGet(t)
    \/ \E t \in Contexts : RefUse(t)
    \/ \E t \in Contexts, type \in FingerprintTypes : RefFingerprint(t, type)
    \/ \E t \in Contexts : RefPut(t)
    \/ \E t \in Contexts : RefClear(t)
    \/ \E t \in Contexts : RefFreeEc(t)
    \/ \E t \in Contexts : RefFreeThis(t)

SpecRef == InitRef /\ [][NextRef]_vars

----------------------------------------------------------------------------
(* Fingerprints.  openssl_ec_fingerprint looks the cache up, encodes the
   key, hashes the encoding and stores the hash; the cache locks each of its
   own calls and nothing spans the three, so they are separate steps. *)

Threads == 1..NThreads

(* Sequential life of keys: construction, get_ref, get_fingerprint and
   destroy as whole calls, on addresses the allocator may hand out again. *)

KeyMaterials == {m \in Materials : m.point = 1}

(* construction of a key, its native key at any free address; the cache
   never sees the object's own address, and the object takes the address
   numbered like its native key's *)
KeyLoad(m) ==
    /\ \E s \in FreeSlots(heap) \cap FreeObjs(heap) :
           heap' = load(heap, i2d_EC_PUBKEY(m), s, s).heap
    /\ UNCHANGED <<env, bld, result, hist, pc, loc, held, call>>

KeyGetRef(o) ==
    /\ heap.objs[o].live
    /\ heap.objs[o].ref < MaxRefs
    /\ heap' = get_ref(heap, o)
    /\ UNCHANGED <<env, bld, result, hist, pc, loc, held, call>>

KeyDestroy(o) ==
    /\ heap.objs[o].live
    /\ heap' = destroy(heap, o)
    /\ UNCHANGED <<env, bld, result, hist, pc, loc, held, call>>

KeyFingerprint(o, type) ==
    /\ heap.objs[o].live
    /\ heap' = get_fingerprint(heap, env, o, type).heap
    /\ UNCHANGED <<env, bld, result, hist, pc, loc, held, call>>

InitKeys ==
    /\ heap = EmptyHeap
    /\ env \in [hasher : BOOLEAN, evp : {TRUE}]
    /\ bld = NoBuilder
    /\ result = NoResult
    /\ hist = NoHist
    /\ pc = [c \in Contexts |-> "off"]
    /\ loc = [c \in Contexts |-> NoLoc]
    /\ held = [c \in Contexts |-> {}]
    /\ call = NoCall

NextKeys ==
    \/ \E m \in KeyMaterials : KeyLoad(m)
    \/ \E o \in ObjIds : KeyGetRef(o)
    \/ \E o \in ObjIds : KeyDestroy(o)
    \/ \E o \in ObjIds, type \in EncTypes : KeyFingerprint(o, type)

SpecKeys == InitKeys /\ [][NextKeys]_vars

----------------------------------------------------------------------------
(* Concurrent get_fingerprint: contexts that each hold a reference to the
   two keys A and B call get_fingerprint, in its three steps. *)

KeyA == 1
KeyB == 2

(* first step: the cache lookup; on a miss, the switch on the request and
   the encoding of the key *)
FpLookup(t, o, type) ==
    /\ pc[t] = "idle"
    /\ o \in held[t]
    /\ LET ec  == heap.objs[o].ec
           hit == get_cache(heap.cache, type, ec)
           inp == fingerprint_input(type, MatOf(heap, ec))
       IN  /\ heap' = [heap EXCEPT !.uaf = @ \/ ReadsFreed(heap, o)]
           /\ IF hit.hit
              THEN /\ loc' = [loc EXCEPT ![t] = [key |-> o, type |-> type, chunk |-> <<>>,
                                                 ret |-> hit, op |-> "hit"]]
                   /\ pc' = [pc EXCEPT ![t] = "fp_done"]
              ELSE IF ~inp.ok
              THEN /\ loc' = [loc EXCEPT ![t] = [key |-> o, type |-> type, chunk |-> <<>>,
                                                 ret |-> NoChunk, op |-> "unsupported"]]
                   /\ pc' = [pc EXCEPT ![t] = "fp_done"]
              ELSE /\ loc' = [loc EXCEPT ![t] = [key |-> o, type |-> type, chunk |-> inp.key,
                                                 ret |-> NoChunk, op |-> "miss"]]
                   /\ pc' = [pc EXCEPT ![t] = "fp_hash"]
    /\ UNCHANGED <<env, bld, result, hist, held, call>>

(* second step: create_hasher and allocate_hash *)
FpHash(t) ==
    /\ pc[t] = "fp_hash"
    /\ IF ~env.hasher
       THEN /\ loc' = [loc EXCEPT ![t].chunk = <<>>, ![t].op = "nohasher"]
            /\ pc' = [pc EXCEPT ![t] = "fp_done"]
       ELSE /\ loc' = [loc EXCEPT ![t].chunk = allocate_hash(@)]
            /\ pc' = [pc EXCEPT ![t] = "fp_store"]
    /\ UNCHANGED <<heap, env, bld, result, hist, held, call>>

(* third step: the hash goes into the cache and is returned *)
FpStore(t) ==
    /\ pc[t] = "fp_store"
    /\ LET ec == heap.objs[loc[t].key].ec
           ty == loc[t].type
       IN  heap' = [heap EXCEPT !.cache = cache_put(@, ty, ec, loc[t].chunk),
                                !.dup = @ \/ get_cache(heap.cache, ty, ec).hit,
                                !.uaf = @ \/ ReadsFreed(heap, loc[t].key)]
    /\ loc' = [loc EXCEPT ![t].ret = [hit |-> TRUE, chunk |-> loc[t].chunk],
                          ![t].op = "computed"]
    /\ pc' = [pc EXCEPT ![t] = "fp_done"]
    /\ UNCHANGED <<env, bld, result, hist, held, call>>

(* the caller takes the result *)
FpReturn(t) ==
    /\ pc[t] = "fp_done"
    /\ pc' = [pc EXCEPT ![t] = "idle"]
    /\ loc' = [loc EXCEPT ![t] = NoLoc]
    /\ UNCHANGED <<heap, env, bld, result, hist, held, call>>

(* the heap with A and B loaded and a reference for every context *)
RECURSIVE RefsFor(_, _, _)
RefsFor(h, o, n) == IF n = 0 THEN h ELSE RefsFor(get_ref(h, o), o, n - 1)

TwoKeys(ma, mb) ==
    LET h1 == load(EmptyHeap, i2d_EC_PUBKEY(ma), KeyA, KeyA).heap
        h2 == load(h1, i2d_EC_PUBKEY(mb), KeyB, KeyB).heap
    IN  RefsFor(RefsFor(h2, KeyA, NThreads - 1), KeyB, NThreads - 1)

InitFp ==
    /\ \E ma \in Materials, mb \in KeyMaterials : heap = TwoKeys(ma, mb)
    /\ env \in [hasher : BOOLEAN, evp : {TRUE}]
    /\ bld = NoBuilder
    /\ result = NoResult
    /\ hist = NoHist
    /\ pc = [c \in Contexts |-> IF c \in Threads THEN "idle" ELSE "off"]
    /\ loc = [c \in Contexts |-> NoLoc]
    /\ held = [c \in Contexts |-> IF c \in Threads THEN {KeyA, KeyB} ELSE {}]
    /\ call = NoCall

NextFp ==
    \/ \E t \in Threads, o \in {KeyA, KeyB}, type \in EncTypes : FpLookup(t, o, type)
    \/ \E t \in Threads : FpHash(t)
    \/ \E t \in Threads : FpStore(t)
    \/ \E t \in Threads : FpReturn(t)

SpecFp == InitFp /\ [][NextFp]_vars

----------------------------------------------------------------------------
(* Signatures *)

RawSchemes == {"SIGN_ECDSA_WITH_NULL", "SIGN_ECDSA_256", "SIGN_ECDSA_384", "SIGN_ECDSA_521"}
SupportedSchemes == RawSchemes \cup {"SIGN_ECDSA_WITH_SHA1"}
Schemes == SupportedSchemes \cup {"SIGN_RSA_EMSA_PKCS1_SHA1", "SIGN_UNKNOWN"}

SigInts == {0, 1, 2}
SigBytes == {0, 1, 2}
Datas == {<<>>, <<1>>, <<2, 1>>}

(* ECDSA-Sig-Value of two small integers: SEQUENCE { INTEGER r, INTEGER s } *)
DerInt(n) == <<INT_TAG, 1, n>>
DerSig(r, s) == <<SEQ_TAG, 6>> \o DerInt(r) \o DerInt(s)

(* one INTEGER at the head of q: its value and what follows it *)
ParseInt(q) ==
    IF Len(q) >= 3 /\ q[1] = INT_TAG /\ q[2] >= 1 /\ Len(q) >= 2 + q[2]
    THEN [ok |-> TRUE, val |-> BN_bin2bn(SubSeq(q, 3, 2 + q[2])),
          rest |-> SubSeq(q, 3 + q[2], Len(q))]
    ELSE [ok |-> FALSE, val |-> <<>>, rest |-> <<>>]

(* d2i_ECDSA_SIG: NULL unless q starts with a SEQUENCE holding exactly two
   INTEGERs; bytes after the SEQUENCE are not looked at *)
d2i_ECDSA_SIG(q) ==
    LET none == [ok |-> FALSE, r |-> <<>>, s |-> <<>>]
    IN  IF ~(Len(q) >= 2 /\ q[1] = SEQ_TAG /\ Len(q) >= 2 + q[2]) THEN none
        ELSE LET a == ParseInt(SubSeq(q, 3, 2 + q[2]))
                 b == ParseInt(a.rest)
             IN  IF a.ok /\ b.ok /\ b.rest = <<>>
                 THEN [ok |-> TRUE, r |-> a.val, s |-> b.val]
                 ELSE none

(* openssl_bn_split: the two halves of an even-length chunk, as integers *)
openssl_bn_split(chunk) ==
    IF Len(chunk) % 2 # 0 THEN [ok |-> FALSE, r |-> <<>>, s |-> <<>>]
    ELSE LET len == Len(chunk) \div 2
         IN  [ok |-> TRUE, r |-> BN_bin2bn(SubSeq(chunk, 1, len)),
              s |-> BN_bin2bn(SubSeq(chunk, len + 1, 2 * len))]

(* chunk2sig: the group is passed in and not used *)
chunk2sig(group, chunk) == openssl_bn_split(chunk)

(* ECDSA_do_verify: 1 for the one pair (r, s) that signs the digest under
   the key, 0 for any other *)
SignR(hash, mat) == 1 + ((SumSeq(hash) + mat.point) % 2)
SignS(hash, mat) == 1 + ((SumSeq(hash) + CurveOid[mat.curve]) % 2)
ECDSA_do_verify(hash, r, s, mat) ==
    IF r = BnOfInt(SignR(hash, mat)) /\ s = BnOfInt(SignS(hash, mat)) THEN 1 ELSE 0

(* verify_signature: RFC 4754 signatures *)
verify_signature(e, mat, hash_type, data, signature) ==
    LET h   == IF hash_type = "NID_undef" THEN [ok |-> TRUE, hash |-> data]
               ELSE openssl_hash_chunk(e, hash_type, data)
        sig == chunk2sig(mat.curve, signature)
    IN  IF ~h.ok THEN FALSE
        ELSE IF ~sig.ok THEN FALSE
        ELSE ECDSA_do_verify(h.hash, sig.r, sig.s, mat) = 1

(* the loop that removes preceding 0-bytes from the signature *)
StripOneZero(q) == IF q # <<>> /\ Head(q) = 0 THEN Tail(q) ELSE q
RECURSIVE StripLeadingZeros(_)
StripLeadingZeros(q) ==
    IF q # <<>> /\ Head(q) = 0 THEN StripLeadingZeros(Tail(q)) ELSE q

(* verify_default_signature: the DER signature with SHA-1 *)
verify_default_signature(e, mat, data, signature) ==
    LET sig == d2i_ECDSA_SIG(StripLeadingZeros(signature))
        h   == openssl_hash_chunk(e, "NID_sha1", data)
    IN  IF ~sig.ok THEN FALSE
        ELSE IF ~h.ok THEN FALSE
        ELSE ECDSA_do_verify(h.hash, sig.r, sig.s, mat) = 1

(* a dispatch that hands ECDSA-384 the SHA-256 digest *)
verify_384_as_256(e, mat, scheme, data, signature) ==
    CASE scheme = "SIGN_ECDSA_WITH_NULL" ->
             [ret |-> verify_signature(e, mat, "NID_undef", data, signature), diag |-> FALSE]
      [] scheme = "SIGN_ECDSA_WITH_SHA1" ->
             [ret |-> verify_default_signature(e, mat, data, signature), diag |-> FALSE]
      [] scheme \in {"SIGN_ECDSA_256", "SIGN_ECDSA_384"} ->
             [ret |-> verify_signature(e, mat, "NID_sha256", data, signature), diag |-> FALSE]
      [] scheme = "SIGN_ECDSA_521" ->
             [ret |-> verify_signature(e, mat, "NID_sha512", data, signature), diag |-> FALSE]
      [] OTHER -> [ret |-> FALSE, diag |-> TRUE]

(* verify: the dispatch on the scheme; diag is the DBG1 of the default case *)
verify(e, mat, scheme, data, signature) ==
    CASE scheme = "SIGN_ECDSA_WITH_NULL" ->
             [ret |-> verify_signature(e, mat, "NID_undef", data, signature), diag |-> FALSE]
      [] scheme = "SIGN_ECDSA_WITH_SHA1" ->
             [ret |-> verify_default_signature(e, mat, data, signature), diag |-> FALSE]
      [] scheme = "SIGN_ECDSA_256" ->
             [ret |-> verify_signature(e, mat, "NID_sha256", data, signature), diag |-> FALSE]
      [] scheme = "SIGN_ECDSA_384" ->
             [ret |-> verify_signature(e, mat, "NID_sha384", data, signature), diag |-> FALSE]
      [] scheme = "SIGN_ECDSA_521" ->
             [ret |-> verify_signature(e, mat, "NID_sha512", data, signature), diag |-> FALSE]
      [] OTHER -> [ret |-> FALSE, diag |-> TRUE]

MalformedSigs ==
    { <<>>, <<SEQ_TAG>>, <<SEQ_TAG, 6, INT_TAG, 1, 1>>,
      <<49, 6, INT_TAG, 1, 1, INT_TAG, 1, 1>>,
      <<SEQ_TAG, 6, INT_TAG, 1, 1, 3, 1, 1>>,
      <<SEQ_TAG, 3, INT_TAG, 1, 1>> }
LegacyBodies == {DerSig(r, s) : r \in SigInts, s \in SigInts} \cup MalformedSigs
LegacySigs == {Zeros(n) \o b : n \in 0..MaxZeroPrefix, b \in LegacyBodies}
RawSigs == SeqsUpTo(SigBytes, MaxSigLen)
Signatures == RawSigs \cup LegacySigs

(* one call of verify on the key *)
Verify ==
    /\ ~call.done
    /\ LET r == verify(env, MatOf(heap, heap.objs[call.this].ec),
                       call.scheme, call.data, call.sig)
       IN  call' = [call EXCEPT !.done = TRUE, !.ret = r.ret, !.diag = r.diag]
    /\ UNCHANGED <<heap, env, bld, result, hist, pc, loc, held>>

InitVerify ==
    /\ \E m \in Materials : heap = load(EmptyHeap, i2d_EC_PUBKEY(m), TheKey, 1).heap
    /\ env \in [hasher : {TRUE}, evp : BOOLEAN]
    /\ bld = NoBuilder
    /\ result = NoResult
    /\ hist = NoHist
    /\ pc = [c \in Contexts |-> "off"]
    /\ loc = [c \in Contexts |-> NoLoc]
    /\ held = [c \in Contexts |-> {}]
    /\ \E sch \in Schemes, d \in Datas, sg \in Signatures :
           call = [this |-> TheKey, scheme |-> sch, data |-> d, sig |-> sg,
                   done |-> FALSE, ret |-> FALSE, diag |-> FALSE]

NextVerify == Verify

SpecVerify == InitVerify /\ [][NextVerify]_vars

----------------------------------------------------------------------------
(* The methods of a key as whole calls, and the way of a key through its
   encoding and a builder: the caller holds one key, calls its methods,
   hands the DER encoding it got from get_encoding to a new builder and
   calls the methods of the key that build() returns as well.  The last
   call and what it returned are kept in loc[0]. *)

(* a get_encoding that also stores what it encoded in the cache *)
get_encoding_cached(h, o, type) ==
    IF type = "KEY_PUB_SPKI_ASN1_DER"
    THEN LET enc == i2d_EC_PUBKEY(MatOf(h, h.objs[o].ec))
         IN  [heap |-> [h EXCEPT !.cache = cache_put(@, type, h.objs[o].ec, enc)],
              ret |-> [hit |-> TRUE, chunk |-> enc]]
    ELSE [heap |-> h, ret |-> NoChunk]

(* get_encoding: DER SubjectPublicKeyInfo, nothing for any other request *)
get_encoding(h, o, type) ==
    IF type = "KEY_PUB_SPKI_ASN1_DER"
    THEN [heap |-> h,
          ret |-> [hit |-> TRUE, chunk |-> i2d_EC_PUBKEY(MatOf(h, h.objs[o].ec))]]
    ELSE [heap |-> h, ret |-> NoChunk]

(* encrypt: not supported, with a diagnostic *)
encrypt_(h, o, crypto) == [heap |-> h, ret |-> FALSE, diag |-> TRUE]

(* The buffers a call has allocated and not freed when it returns.
   verify_signature: the hash (unless the data is the digest) and the
   signature object, both freed at the error label; nothing is allocated
   when the hash fails *)
verify_signature_buffers(e, hash_type, data, signature) ==
    LET h == IF hash_type = "NID_undef" THEN [ok |-> TRUE, hash |-> data]
             ELSE openssl_hash_chunk(e, hash_type, data)
        allocated == (IF hash_type # "NID_undef" THEN {"hash"} ELSE {}) \cup {"sig"}
        freed     == {"sig"} \cup (IF hash_type # "NID_undef" THEN {"hash"} ELSE {})
    IN  IF ~h.ok THEN {} ELSE allocated \ freed

(* verify_default_signature: the decoded signature and the hash *)
verify_default_signature_buffers(e, data, signature) ==
    LET sig == d2i_ECDSA_SIG(StripLeadingZeros(signature))
        h   == openssl_hash_chunk(e, "NID_sha1", data)
        allocated == {"sig"} \cup (IF h.ok THEN {"hash"} ELSE {})
        freed     == {"sig", "hash"}
    IN  IF ~sig.ok THEN {} ELSE allocated \ freed

verify_buffers(e, scheme, data, signature) ==
    CASE scheme = "SIGN_ECDSA_WITH_NULL" ->
             verify_signature_buffers(e, "NID_undef", data, signature)
      [] scheme = "SIGN_ECDSA_WITH_SHA1" ->
             verify_default_signature_buffers(e, data, signature)
      [] scheme = "SIGN_ECDSA_256" ->
             verify_signature_buffers(e, "NID_sha256", data, signature)
      [] scheme = "SIGN_ECDSA_384" ->
             verify_signature_buffers(e, "NID_sha384", data, signature)
      [] scheme = "SIGN_ECDSA_521" ->
             verify_signature_buffers(e, "NID_sha512", data, signature)
      [] OTHER -> {}

(* openssl_ec_fingerprint: the encoded key and the hasher; the encoded key
   is freed where no hasher is to be had, the hasher is destroyed after the
   hash; the fingerprint itself goes to the cache *)
openssl_ec_fingerprint_buffers(h, e, ec, type) ==
    LET hit == get_cache(h.cache, type, ec)
        inp == fingerprint_input(type, MatOf(h, ec))
    IN  IF hit.hit THEN {}
        ELSE IF ~inp.ok THEN {}
        ELSE IF ~e.hasher THEN {"key"} \ {"key"}
        ELSE {"key", "hasher"} \ {"hasher"}

(* the keys the caller has in hand *)
OpsKeys ==
    {TheKey} \cup (IF result.done /\ result.key # NULL THEN {result.key} ELSE {})

OpsData == <<1>>
OpsSigs == { <<1>>, <<1, 1>>, <<1, 2>>, DerSig(1, 1), DerSig(1, 2) }

Called(op, o, type, ret, temps) ==
    [key |-> o, type |-> type, chunk |-> <<>>, ret |-> ret, op |-> op, temps |-> temps]

OpVerify(o, scheme, data, signature) ==
    /\ o \in OpsKeys
    /\ LET r == verify(env, MatOf(heap, heap.objs[o].ec), scheme, data, signature)
       IN  loc' = [loc EXCEPT ![0] =
                      Called("verify", o, scheme, [hit |-> r.ret, chunk |-> <<>>],
                             verify_buffers(env, scheme, data, signature))]
    /\ UNCHANGED <<heap, env, bld, result, hist, pc, held, call>>

OpEncrypt(o) ==
    /\ o \in OpsKeys
    /\ LET r == encrypt_(heap, o, <<1>>)
       IN  /\ heap' = r.heap
           /\ loc' = [loc EXCEPT ![0] =
                          Called("encrypt", o, "none", [hit |-> r.ret, chunk |-> <<>>], {})]
    /\ UNCHANGED <<env, bld, result, hist, pc, held, call>>

OpGetKeysize(o) ==
    /\ o \in OpsKeys
    /\ loc' = [loc EXCEPT ![0] =
                   Called("get_keysize", o, "none",
                          [hit |-> TRUE, chunk |-> <<get_keysize(heap, o)>>], {})]
    /\ UNCHANGED <<heap, env, bld, result, hist, pc, held, call>>

OpGetEncoding(o, type) ==
    /\ o \in OpsKeys
    /\ LET r == get_encoding(heap, o, type)
       IN  /\ heap' = r.heap
           /\ loc' = [loc EXCEPT ![0] = Called("get_encoding", o, type, r.ret, {})]
    /\ UNCHANGED <<env, bld, result, hist, pc, held, call>>

OpGetFingerprint(o, type) ==
    /\ o \in OpsKeys
    /\ LET r == get_fingerprint(heap, env, o, type)
       IN  /\ heap' = r.heap
           /\ loc' = [loc EXCEPT ![0] =
                          Called("get_fingerprint", o, type, r.ret,
                                 openssl_ec_fingerprint_buffers(heap, env,
                                                                heap.objs[o].ec, type))]
    /\ UNCHANGED <<env, bld, result, hist, pc, held, call>>

OpGetRef(o) ==
    /\ o \in OpsKeys
    /\ heap.objs[o].ref < MaxRefs
    /\ heap' = get_ref(heap, o)
    /\ loc' = [loc EXCEPT ![0] = Called("get_ref", o, "none", NoChunk, {})]
    /\ UNCHANGED <<env, bld, result, hist, pc, held, call>>

(* the encoding the caller got last goes to the builder as a DER blob *)
OpAddEncoding ==
    /\ loc[0].op = "get_encoding" /\ loc[0].ret.hit
    /\ Add("BUILD_BLOB_ASN1_DER", loc[0].ret.chunk)

InitOps ==
    /\ \E m \in KeyMaterials :
           heap = load(EmptyHeap, i2d_EC_PUBKEY(m), TheKey, 1).heap
    /\ env \in [hasher : BOOLEAN, evp : BOOLEAN]
    /\ bld = NoBuilder
    /\ result = NoResult
    /\ hist = NoHist
    /\ pc = [c \in Contexts |-> "off"]
    /\ loc = [c \in Contexts |-> IF c = 0 THEN Called("none", NULL, "none", NoChunk, {})
                                            ELSE NoLoc]
    /\ held = [c \in Contexts |-> {}]
    /\ call = NoCall

NextOps ==
    \/ \E o \in ObjIds, scheme \in Schemes, signature \in OpsSigs :
           OpVerify(o, scheme, OpsData, signature)
    \/ \E o \in ObjIds : OpEncrypt(o)
    \/ \E o \in ObjIds : OpGetKeysize(o)
    \/ \E o \in ObjIds, type \in EncTypes : OpGetEncoding(o, type)
    \/ \E o \in ObjIds, type \in EncTypes : OpGetFingerprint(o, type)
    \/ OpGetRef(TheKey)
    \/ CreateBuilder("KEY_ECDSA")
    \/ OpAddEncoding
    \/ Build

SpecOps == InitOps /\ [][NextOps]_vars

----------------------------------------------------------------------------
(* Properties of the builder, under Spec *)

Completed == hist.okAt # 0 /\ hist.nadds = hist.okAt /\ ~bld.cancelled

(* C1: once an add with the DER part kind has failed to construct a key,
   any later add cancels the builder and build() returns nothing. *)
C1_OneAttemptHonored ==
    (hist.failAt # 0 /\ hist.nadds > hist.failAt)
        => /\ bld.cancelled
           /\ result.done => result.key = NULL

(* C2: once an add has constructed a key, any further add cancels the
   builder, the builder stays cancelled whatever is added after that, and
   build() returns nothing. *)
C2_AddAfterSuccessCancels ==
    (hist.okAt # 0 /\ hist.nadds > hist.okAt)
        => /\ bld.cancelled
           /\ bld.key # NULL
           /\ result.done => result.key = NULL

C2_Witness ==
    /\ result.done /\ result.key = NULL
    /\ hist.okAt = 1 /\ hist.nadds = MaxAdds

(* C3: build() returns the held key exactly when the builder is Completed:
   after exactly one add, of a valid DER blob, it returns a live key of type
   ECDSA; after no add, or when the first add was of an unsupported part
   kind, it returns nothing. *)
C3_BuildReturnsWhenCompleted ==
    result.done =>
        /\ (result.key # NULL) <=> Completed
        /\ (hist.nadds = 1 /\ hist.first = "der_ok") =>
               /\ result.key # NULL
               /\ get_type(result.key) = "KEY_ECDSA"
               /\ ~result.released =>
                      /\ heap.objs[result.key].live
                      /\ heap.objs[result.key].ref = 1
                      /\ heap.objs[result.key].ec # NULL
                      /\ heap.natives[heap.objs[result.key].ec].live
        /\ (hist.nadds = 0 \/ hist.first = "other") => result.key = NULL

C3_Witness ==
    /\ result.done /\ result.key # NULL /\ ~result.released
    /\ hist.nadds = 1 /\ hist.first = "der_ok"
    /\ heap.objs[result.key].live

(* the key objects somebody answers for: the one an open, uncancelled
   builder holds, and the one build() returned until its caller destroys it *)
Owned ==
    (IF bld.state = "open" /\ ~bld.cancelled /\ bld.key # NULL THEN {bld.key} ELSE {})
        \cup (IF result.done /\ result.key # NULL /\ ~result.released
              THEN {result.key} ELSE {})

(* C15: every key object the builder allocates is either the one build()
   returns or is released exactly once, never both and never neither;
   build() never returns a destroyed key, and a failed load releases the
   half-built object without touching a native handle. *)
C15_LinearOwnership ==
    /\ {o \in ObjIds : heap.objs[o].live} = Owned
    /\ \A o \in ObjIds : heap.objFrees[o] <= 1
    /\ ~heap.uaf
    /\ \A s \in Slots :
           /\ heap.ecFrees[s] <= 1
           /\ heap.natives[s].live <=> \E o \in Owned : heap.objs[o].ec = s
    /\ (result.done /\ result.key # NULL /\ ~result.released) =>
           /\ heap.objs[result.key].live
           /\ heap.natives[heap.objs[result.key].ec].live
    /\ hist.okAt = 0 =>
           \A s \in Slots : heap.ecFrees[s] = 0 /\ ~heap.natives[s].live

C15_Witness ==
    /\ hist.failAt # 0 /\ hist.okAt > hist.failAt
    /\ result.done /\ result.key # NULL /\ ~result.released
    /\ \E o \in ObjIds : o # result.key /\ heap.objFrees[o] = 1

----------------------------------------------------------------------------
(* Properties of reference counting, under SpecRef *)

Releasing(c) == pc[c] \in {"clear", "free_ec", "free_this"}
TotalEcFrees == heap.ecFrees[1] + SumSeq([s \in 1..(MaxSlots - 1) |-> heap.ecFrees[s + 1]])

(* C4: under any interleaving of the contexts' paired get_ref/destroy calls
   and the owner's destroy, the native key is released exactly once, by one
   context, once no reference is left, and nothing touches the key or its
   native handle after the release. *)
C4_ReleasedExactlyOnce ==
    /\ ~heap.uaf
    /\ TotalEcFrees <= 1
    /\ heap.objFrees[TheKey] <= 1
    /\ Cardinality({c \in Contexts : loc[c].op = "last"}) <= 1
    /\ (\E c \in Contexts : Holding(c)) =>
           /\ heap.objs[TheKey].live
           /\ heap.natives[heap.objs[TheKey].ec].live
           /\ heap.objs[TheKey].ref = Cardinality({c \in Contexts : Holding(c)})
           /\ TotalEcFrees = 0
    /\ (\A c \in Contexts : ~Holding(c) /\ ~Releasing(c)) =>
           /\ TotalEcFrees = 1
           /\ heap.objFrees[TheKey] = 1
           /\ \A s \in Slots : ~heap.natives[s].live

C4_Witness ==
    /\ \A c \in Contexts : pc[c] = "done"
    /\ loc[0].op # "last"
    /\ TotalEcFrees = 1

(* a step in which a context's destroy returns without releasing *)
NonFinalDestroy == \E c \in Contexts : Holding(c) /\ pc'[c] = "done"

(* C16: a key is created with ref_count 1 and every live key has
   ref_count >= 1; a destroy that does not bring the count to 0 leaves the
   native handle and the key's cache entries as they were, and the destroy
   that brings it to 0 purges the key's cache entries before it releases
   the native handle. *)
C16_RefCountDiscipline ==
    /\ [](/\ \A o \in ObjIds : create_empty(EmptyHeap, o).objs[o].ref = 1
          /\ (heap.objs[TheKey].live /\ \A c \in Contexts : ~Releasing(c))
                 => heap.objs[TheKey].ref >= 1
          /\ \A c \in Contexts :
                 pc[c] = "free_ec" =>
                     /\ heap.natives[heap.objs[TheKey].ec].live
                     /\ ~HasEntries(heap.cache, heap.objs[TheKey].ec)
          /\ \A s \in Slots : heap.ecFrees[s] > 0 => ~HasEntries(heap.cache, s))
    /\ [][NonFinalDestroy =>
              /\ heap'.natives = heap.natives
              /\ heap'.cache = heap.cache
              /\ heap'.objs[TheKey].ec = heap.objs[TheKey].ec
              /\ heap'.objs[TheKey].ref = heap.objs[TheKey].ref - 1
              /\ heap'.objs[TheKey].ref >= 1]_vars

C16_Witness ==
    /\ \A c \in Contexts : pc[c] = "done"
    /\ loc[0].op # "last"
    /\ \E s \in Slots : heap.purged[s] # NoMat /\ heap.ecFrees[s] = 1

----------------------------------------------------------------------------
(* Properties of the fingerprint cache *)

(* what a computation without the cache yields for a request on a key *)
UncachedFingerprint(type, mat) == allocate_hash(fingerprint_input(type, mat).key)

(* C5 (SpecKeys): after the final destroy of a key the cache holds no entry
   for its native key's address under any request, so every entry belongs to
   a live key and holds that key's own fingerprint, and get_fingerprint on a
   key at a reused address returns the new key's fingerprint. *)
C5_NoStaleFingerprint ==
    /\ \A s \in Slots : ~heap.natives[s].live => ~HasEntries(heap.cache, s)
    /\ \A s \in Slots, ty \in EncTypes :
           heap.cache[<<ty, s>>].hit =>
               heap.cache[<<ty, s>>].chunk = UncachedFingerprint(ty, MatOf(heap, s))
    /\ \A o \in ObjIds, ty \in FingerprintTypes :
           (heap.objs[o].live /\ env.hasher) =>
               get_fingerprint(heap, env, o, ty).ret =
                   [hit |-> TRUE,
                    chunk |-> UncachedFingerprint(ty, MatOf(heap, heap.objs[o].ec))]

C5_Witness ==
    \E s \in Slots, ty \in FingerprintTypes :
        /\ heap.natives[s].live
        /\ heap.purged[s] # NoMat
        /\ heap.purged[s] # MatOf(heap, s)
        /\ heap.cache[<<ty, s>>].hit
        /\ heap.cache[<<ty, s>>].chunk # UncachedFingerprint(ty, heap.purged[s])

(* C7 (SpecFp): get_fingerprint's lookup, computation and insert are one
   mutually exclusive sequence: a fingerprint is never computed and inserted
   for a key and request whose entry is already in the cache. *)
C7_NoDuplicateComputation == ~heap.dup

(* C8 (SpecFp): the cache is a pure memoization: every value get_fingerprint
   returns for a key and request, from the cache or computed, is the value
   an uncached computation yields, it returns a value exactly for the two
   SHA-1 requests when a hasher exists, and so any two calls with the same
   request on the same key return the same bytes. *)
C8_PureMemoization ==
    /\ \A t \in Threads :
           pc[t] = "fp_done" =>
               /\ loc[t].ret.hit <=> (loc[t].type \in FingerprintTypes /\ env.hasher)
               /\ loc[t].ret.hit =>
                      loc[t].ret.chunk =
                          UncachedFingerprint(loc[t].type,
                                              MatOf(heap, heap.objs[loc[t].key].ec))
    /\ \A t \in Threads, u \in Threads :
           (/\ pc[t] = "fp_done" /\ pc[u] = "fp_done"
            /\ loc[t].key = loc[u].key /\ loc[t].type = loc[u].type)
               => loc[t].ret = loc[u].ret

C8_Witness ==
    \E t \in Threads, u \in Threads :
        /\ pc[t] = "fp_done" /\ pc[u] = "fp_done"
        /\ loc[t].key = loc[u].key /\ loc[t].type = loc[u].type
        /\ loc[t].op = "hit" /\ loc[u].op = "computed"
        /\ loc[t].ret.hit /\ loc[t].ret = loc[u].ret
        /\ heap.cache[<<"KEY_ID_PUBKEY_SHA1", heap.objs[loc[t].key].ec>>].hit
        /\ heap.cache[<<"KEY_ID_PUBKEY_INFO_SHA1", heap.objs[loc[t].key].ec>>].hit

----------------------------------------------------------------------------
(* Properties of verify, under SpecVerify *)

CallMat == MatOf(heap, heap.objs[call.this].ec)

(* C6: for the raw-encoding schemes verify returns false for every
   signature whose length is not twice the key's field-element length. *)
C6_WrongLengthRejected ==
    (/\ call.done
     /\ call.scheme \in RawSchemes
     /\ Len(call.sig) # 2 * EC_FIELD_ELEMENT_LEN(CallMat))
        => call.ret = FALSE

(* C9: for ECDSA-with-SHA1, verify on a valid DER signature prefixed with 0
   to 3 zero bytes returns what verify returns on the unprefixed signature,
   which is the answer of the native primitive on the decoded (r, s). *)
C9_ZeroPrefixIgnored ==
    (call.done /\ call.scheme = "SIGN_ECDSA_WITH_SHA1") =>
        \A n \in 0..MaxZeroPrefix, r \in SigInts, s \in SigInts :
            call.sig = Zeros(n) \o DerSig(r, s) =>
                /\ call.ret = verify(env, CallMat, call.scheme, call.data, DerSig(r, s)).ret
                /\ call.ret = (/\ env.evp
                               /\ ECDSA_do_verify(HashOf("NID_sha1", call.data),
                                                  BnOfInt(r), BnOfInt(s), CallMat) = 1)

C9_Witness ==
    /\ call.done /\ call.scheme = "SIGN_ECDSA_WITH_SHA1"
    /\ call.ret = TRUE
    /\ \E r \in SigInts, s \in SigInts : call.sig = Zeros(3) \o DerSig(r, s)

(* a signature that is not in the scheme's wire encoding for this key *)
MalformedFor(scheme, sig, mat) ==
    IF scheme \in RawSchemes
    THEN Len(sig) # 2 * EC_FIELD_ELEMENT_LEN(mat)
    ELSE ~d2i_ECDSA_SIG(StripLeadingZeros(sig)).ok

(* the digest a supported scheme verifies, and the (r, s) it decodes *)
DigestFor(scheme, data) ==
    CASE scheme = "SIGN_ECDSA_WITH_NULL" -> data
      [] scheme = "SIGN_ECDSA_WITH_SHA1" -> HashOf("NID_sha1", data)
      [] scheme = "SIGN_ECDSA_256"       -> HashOf("NID_sha256", data)
      [] scheme = "SIGN_ECDSA_384"       -> HashOf("NID_sha384", data)
      [] scheme = "SIGN_ECDSA_521"       -> HashOf("NID_sha512", data)
DecodedFor(scheme, sig) ==
    IF scheme \in RawSchemes THEN openssl_bn_split(sig)
    ELSE d2i_ECDSA_SIG(StripLeadingZeros(sig))
Mismatch(scheme, data, sig, mat) ==
    LET d == DecodedFor(scheme, sig)
    IN  d.ok /\ ECDSA_do_verify(DigestFor(scheme, data), d.r, d.s, mat) # 1

(* C10: verify always returns a boolean; it returns false for an
   unrecognized scheme, for a malformed signature encoding and for a
   verification mismatch, and it emits a diagnostic if and only if the
   scheme is not one of the five supported. *)
C10_FalseOnBadInput ==
    call.done =>
        /\ call.ret \in BOOLEAN
        /\ call.scheme \notin SupportedSchemes => call.ret = FALSE
        /\ (/\ call.scheme \in SupportedSchemes
            /\ MalformedFor(call.scheme, call.sig, CallMat)) => call.ret = FALSE
        /\ (/\ call.scheme \in SupportedSchemes
            /\ Mismatch(call.scheme, call.data, call.sig, CallMat)) => call.ret = FALSE
        /\ call.diag <=> call.scheme \notin SupportedSchemes

(* the digest of the scheme can be computed: the null-hash scheme needs no
   digest algorithm, the others need theirs from the library *)
DigestAvailable(scheme) == scheme = "SIGN_ECDSA_WITH_NULL" \/ env.evp

(* C11: for each of the five supported schemes, once the digest is computed
   and (r, s) is decoded, verify returns exactly the answer of the native
   primitive on (digest, r, s, key): the digest is the data itself for the
   null-hash scheme, SHA-1 for ECDSA-with-SHA1 and SHA-256/384/512 for
   ECDSA-256/384/521; (r, s) comes from the DER SEQUENCE for
   ECDSA-with-SHA1 and from the two halves of the buffer for the others. *)
C11_VerifyIsPrimitive ==
    (call.done /\ call.scheme \in SupportedSchemes) =>
        LET d == IF call.scheme = "SIGN_ECDSA_WITH_SHA1"
                 THEN d2i_ECDSA_SIG(StripLeadingZeros(call.sig))
                 ELSE openssl_bn_split(call.sig)
        IN  (d.ok /\ DigestAvailable(call.scheme)) =>
                call.ret = (ECDSA_do_verify(DigestFor(call.scheme, call.data),
                                            d.r, d.s, CallMat) = 1)

C11_Witness ==
    /\ call.done /\ call.ret = TRUE
    /\ call.scheme = "SIGN_ECDSA_384"
    /\ Len(call.sig) = 4

----------------------------------------------------------------------------
(* Properties of the methods of a key, under SpecOps *)

EcOf(o) == heap.objs[o].ec

(* C12: in every reachable state get_encoding returns nothing for every
   request other than DER SubjectPublicKeyInfo, get_fingerprint returns
   nothing for every request other than the two SHA-1 fingerprint forms,
   and neither call adds a cache entry in that case. *)
C12_UnsupportedIsNone ==
    /\ \A o \in OpsKeys, type \in EncTypes :
           /\ type # "KEY_PUB_SPKI_ASN1_DER" =>
                  /\ get_encoding(heap, o, type).ret = NoChunk
                  /\ get_encoding(heap, o, type).heap.cache = heap.cache
           /\ type \notin FingerprintTypes =>
                  /\ get_fingerprint(heap, env, o, type).ret = NoChunk
                  /\ get_fingerprint(heap, env, o, type).heap.cache = heap.cache
    /\ (loc[0].op = "get_encoding" /\ loc[0].type # "KEY_PUB_SPKI_ASN1_DER")
           => loc[0].ret = NoChunk
    /\ (loc[0].op = "get_fingerprint" /\ loc[0].type \notin FingerprintTypes)
           => loc[0].ret = NoChunk
    /\ \A k \in DOMAIN heap.cache : heap.cache[k].hit => k[1] \in FingerprintTypes

C12_Witness ==
    /\ loc[0].op = "get_fingerprint" /\ loc[0].type = "KEY_PUB_SPKI_ASN1_DER"
    /\ loc[0].key = TheKey
    /\ \A type \in FingerprintTypes : heap.cache[<<type, EcOf(TheKey)>>].hit

(* a step that is a call of a method of a key: the builder's steps all
   change the builder, its record or its result, the methods never do, and
   each method leaves its name in loc[0] *)
MethodCall(ops) == loc'[0].op \in ops /\ UNCHANGED <<bld, result, hist>>

(* one call of verify, encrypt, get_encoding or get_keysize *)
ReadOnlyCall == MethodCall({"verify", "encrypt", "get_keysize", "get_encoding"})

(* one call of get_fingerprint *)
FingerprintCall == MethodCall({"get_fingerprint"})

(* C13: the native handle of a key is set at construction and never changes
   while the key lives; verify, encrypt, get_encoding, get_fingerprint and
   get_keysize leave the key material and the reference count as they
   were, and of these only get_fingerprint changes the cache. *)
C13_HandleSetOnce ==
    [][ /\ \A o \in ObjIds :
              (heap.objs[o].live /\ heap'.objs[o].live) =>
                  /\ heap'.objs[o].ec = heap.objs[o].ec
                  /\ heap'.natives[heap.objs[o].ec] = heap.natives[heap.objs[o].ec]
        /\ ReadOnlyCall =>
              /\ heap'.objs = heap.objs
              /\ heap'.natives = heap.natives
              /\ heap'.cache = heap.cache
        /\ FingerprintCall =>
              /\ heap'.objs = heap.objs
              /\ heap'.natives = heap.natives
      ]_vars

C13_Witness ==
    /\ loc[0].op = "get_encoding" /\ loc[0].ret.hit
    /\ heap.objs[TheKey].ref = MaxRefs
    /\ \A type \in FingerprintTypes : heap.cache[<<type, EcOf(TheKey)>>].hit
    /\ result.done /\ result.key # NULL

(* C14: the DER SubjectPublicKeyInfo that get_encoding returns for a key,
   added to a new builder as an ASN.1 DER blob and built, yields a key, and
   for each of the two fingerprint requests get_fingerprint returns the
   same bytes for that key as for the first one, whichever of the two has
   the fingerprint in the cache already. *)
C14_RoundTrip ==
    /\ (result.done /\ hist.nadds = 1) => result.key # NULL
    /\ (result.done /\ result.key # NULL) =>
           /\ result.key # TheKey
           /\ MatOf(heap, EcOf(result.key)) = MatOf(heap, EcOf(TheKey))
           /\ \A type \in FingerprintTypes :
                  /\ get_fingerprint(heap, env, result.key, type).ret
                         = get_fingerprint(heap, env, TheKey, type).ret
                  /\ env.hasher => get_fingerprint(heap, env, TheKey, type).ret.hit

C14_Witness ==
    /\ result.done /\ result.key # NULL
    /\ loc[0].op = "get_fingerprint" /\ loc[0].key = result.key /\ loc[0].ret.hit
    /\ heap.cache[<<loc[0].type, EcOf(TheKey)>>].hit
    /\ \E type \in FingerprintTypes :
           /\ ~heap.cache[<<type, EcOf(TheKey)>>].hit
           /\ ~heap.cache[<<type, EcOf(result.key)>>].hit

(* C17: verify and get_fingerprint have released every temporary buffer
   they allocated (the computed hash, the decoded signature, the encoded
   key bytes that are hashed) when they return, on every path. *)
C17_NoBufferOutlivesCall ==
    loc[0].op \in {"verify", "get_fingerprint"} => loc[0].temps = {}

============================================================================
